---- MODULE Spec2Model ----
(***************************************************************************)
(* newdee/pocket: the NATS convenience layer (pocketkit/nats/client.py),   *)
(* its logger (pocketkit/logger.py) and the timing decorators              *)
(* (pocket/decorators/timming.py).                                         *)
(*                                                                         *)
(* The underlying client (nats-py), the user handler and the wrapped       *)
(* function are the environment: every call into them either returns or    *)
(* raises, chosen with \E.  What is modelled is what this repository's     *)
(* code does around those calls: which calls it makes, in which order,     *)
(* what it logs, and what the caller gets back.                            *)
(*                                                                         *)
(* Every one-shot coroutine (create, close, request, publish, subscribe,   *)
(* init_stream, submit, the push/queue run, serve, the registered          *)
(* callbacks, the timed wrappers) is one action that leaves a record of    *)
(* the whole call in `last`.  PullStreamWorker.run is a loop and is        *)
(* modelled statement by statement with a program counter.                 *)
(*                                                                         *)
(* The objects' only fields are handles and names borrowed from a          *)
(* connection; NatsConnection.__init__ is public and nothing checks that   *)
(* the connection is open, so no action is guarded by a connection state.  *)
(***************************************************************************)
EXTENDS Integers, Sequences, FiniteSets, TLC

\* ------------------------------------------------------------------ bounds
\* largest value of PullStreamWorker.batch that is explored
MaxBatch == 2
\* how many messages the client delivers to Responder.serve's callback
MaxDeliveries == 3

\* ------------------------------------------------------------- input sets
Servers == {"nats://127.0.0.1:4222"}
Subjects == {"subj"}
Payloads == {"d1", "d2"}
Handles == {"nc1", "nc2"}
Streams == {"TASKS"}
Args == {"a1", "a2"}
RetVals == {"v1", "v2"}
\* exceptions of the underlying client other than a fetch timeout
ClientErrors == {"ConnectionClosedError", "NoRespondersError"}
\* exceptions (subclasses of Exception) of the user handler / wrapped function
HandlerErrors == {"ValueError", "KeyError"}
TimeoutError == "TimeoutError"
AttributeError == "AttributeError"

VARIABLES
    loggerLevels,   \* the logging methods the module-level `logger` object has
    last,           \* record of the last completed one-shot call
    subs,           \* callbacks registered with the client: kind of subscription
    streams,        \* streams that exist on the server
    cbCalls,        \* invocations of Responder.serve's cb by the client
    cbHandlerCalls, \* invocations of the user handler made by that cb
    cbFailures,     \* how many of those handler invocations raised
    pc,             \* PullStreamWorker.run: position
    batch,          \* PullStreamWorker.batch
    msgs,           \* PullStreamWorker.run: the list fetch returned
    idx,            \* PullStreamWorker.run: position of the for loop in msgs
    trace           \* calls made by run for the current batch, in order

vars == <<loggerLevels, last, subs, streams, cbCalls, cbHandlerCalls,
          cbFailures, pc, batch, msgs, idx, trace>>

pullVars == <<pc, batch, msgs, idx, trace>>
cbVars == <<cbCalls, cbHandlerCalls, cbFailures>>

\* ------------------------------------------------------------------ logger
\* logging.Logger: the methods of the standard library's logger class
StdlibLevels == {"debug", "info", "warning", "error", "critical"}
\* a logger class installed by the host application that adds success()
ExtendedLevels == StdlibLevels \cup {"success"}

\* logger.<level>(...): an attribute the object lacks raises AttributeError
Has(level) == level \in loggerLevels

\* ---------------------------------------------------------------- outcomes
None == <<>>
Ok(v) == [kind |-> "ok", val |-> v, exc |-> ""]
Raised(e) == [kind |-> "raised", val |-> None, exc |-> e]
Outcomes(vals, excs) == {Ok(v) : v \in vals} \cup {Raised(e) : e \in excs}
Call(name, arg, r) == [call |-> name, arg |-> arg, res |-> r]
Done(name, input, calls, logs, outcome) ==
    [name |-> name, input |-> input, calls |-> calls, logs |-> logs,
     outcome |-> outcome]

\* nc.jetstream(): the stream context of a session
jetstream(nc) == IF nc = "nc1" THEN "js1" ELSE "js2"

\* -------------------------------------------------- the forwarding shape
\* log(l1); r = await client.call(arg); log(l2); return ret
\* No try/except: an exception of the call, or of a log statement, leaves
\* the coroutine at the statement that raised it.
ForwardSwallow(name, input, l1, callName, arg, r, l2, ret) ==
    Done(name, input, <<Call(callName, arg, r)>>,
         IF r.kind = "raised" THEN <<l1, "error">> ELSE <<l1, l2>>,
         Ok(IF r.kind = "raised" THEN None ELSE ret))

Forward(name, input, l1, callName, arg, r, l2, ret) ==
    IF ~Has(l1)
    THEN Done(name, input, <<>>, <<>>, Raised(AttributeError))
    ELSE IF r.kind = "raised"
    THEN Done(name, input, <<Call(callName, arg, r)>>, <<l1>>, r)
    ELSE IF ~Has(l2)
    THEN Done(name, input, <<Call(callName, arg, r)>>, <<l1>>,
              Raised(AttributeError))
    ELSE Done(name, input, <<Call(callName, arg, r)>>, <<l1, l2>>, Ok(ret))

\* ---------------------------------------------------------- NatsConnection
create ==
    /\ pc = "idle"
    /\ \E server \in Servers :
       \E r \in Outcomes({<<nc>> : nc \in Handles}, ClientErrors) :
          last' = Forward("NatsConnection.create", <<server>>, "info",
                          "nats.connect", <<server>>, r, "success",
                          IF r.kind = "ok"
                          THEN <<server, r.val[1], jetstream(r.val[1])>>
                          ELSE None)
    /\ UNCHANGED <<loggerLevels, subs, streams, cbVars, pullVars>>

close ==
    /\ pc = "idle"
    /\ \E r \in Outcomes({None}, ClientErrors) :
          last' = Forward("NatsConnection.close", None, "info",
                          "nc.drain", None, r, "success", None)
    /\ UNCHANGED <<loggerLevels, subs, streams, cbVars, pullVars>>

request ==
    /\ pc = "idle"
    /\ \E subject \in Subjects, data \in Payloads :
       \E r \in Outcomes({<<d>> : d \in Payloads}, ClientErrors \cup {TimeoutError}) :
          last' = Forward("NatsConnection.request", <<subject, data>>, "info",
                          "nc.request", <<subject, data>>, r, "info", r.val)
    /\ UNCHANGED <<loggerLevels, subs, streams, cbVars, pullVars>>

\* ------------------------------------------- EventPublisher, EventSubscriber
publish ==
    /\ pc = "idle"
    /\ \E subject \in Subjects, data \in Payloads :
       \E r \in Outcomes({None}, ClientErrors) :
          last' = Forward("EventPublisher.publish", <<subject, data>>, "debug",
                          "nc.publish", <<subject, data>>, r, "info", None)
    /\ UNCHANGED <<loggerLevels, subs, streams, cbVars, pullVars>>

\* a successful subscribe call registers the callback with the client,
\* whatever the statements after it do
Registered(r, kind) == IF r.kind = "ok" THEN subs \cup {kind} ELSE subs

subscribe ==
    /\ pc = "idle"
    /\ \E subject \in Subjects :
       \E r \in Outcomes({None}, ClientErrors) :
          /\ last' = Forward("EventSubscriber.subscribe", <<subject>>, "info",
                             "nc.subscribe", <<subject, "handler">>, r,
                             "success", None)
          /\ subs' = Registered(r, "event")
    /\ UNCHANGED <<loggerLevels, streams, cbVars, pullVars>>

\* ------------------------------------------------------------- init_stream
\* StreamPublisher.init_stream and BaseStreamWorker.init_stream are the same
\* body: log; try: add_stream; log success; except Exception: log warning.
\* The success log sits inside the try, so its AttributeError is caught too.
init_stream_reraise(cls, stream, r) ==
    IF r.kind = "raised"
    THEN Done(cls, <<stream>>, <<Call("js.add_stream", <<stream>>, r)>>,
              <<"info", "warning">>, r)
    ELSE Done(cls, <<stream>>, <<Call("js.add_stream", <<stream>>, r)>>,
              <<"info", "success">>, Ok(None))

init_stream(cls, stream, r) ==
    IF ~Has("info")
    THEN Done(cls, <<stream>>, <<>>, <<>>, Raised(AttributeError))
    ELSE Done(cls, <<stream>>, <<Call("js.add_stream", <<stream>>, r)>>,
              IF r.kind = "ok" /\ Has("success")
              THEN <<"info", "success">>
              ELSE <<"info", "warning">>,
              Ok(None))

\* the server creates the stream when add_stream succeeds
Added(stream, r) == IF r.kind = "ok" THEN streams \cup {stream} ELSE streams

StreamPublisher_init_stream ==
    /\ pc = "idle"
    /\ \E stream \in Streams :
       \E r \in Outcomes({None}, ClientErrors) :
          /\ last' = init_stream("StreamPublisher.init_stream", stream, r)
          /\ streams' = Added(stream, r)
    /\ UNCHANGED <<loggerLevels, subs, cbVars, pullVars>>

BaseStreamWorker_init_stream ==
    /\ pc = "idle"
    /\ \E stream \in Streams :
       \E r \in Outcomes({None}, ClientErrors) :
          /\ last' = init_stream("BaseStreamWorker.init_stream", stream, r)
          /\ streams' = Added(stream, r)
    /\ UNCHANGED <<loggerLevels, subs, cbVars, pullVars>>

\* --------------------------------------------------------- StreamPublisher
submit ==
    /\ pc = "idle"
    /\ \E subject \in Subjects, data \in Payloads :
       \E r \in Outcomes({<<"seq">>}, ClientErrors) :
          last' = Forward("StreamPublisher.submit", <<data>>, "info",
                          "js.publish", <<subject, data>>, r, "success", None)
    /\ UNCHANGED <<loggerLevels, subs, streams, cbVars, pullVars>>

\* ------------------------------------- SubscribeStreamWorker, QueueWorker
\* run passes the user handler itself as the callback: cb=handler
SubscribeStreamWorker_run ==
    /\ pc = "idle"
    /\ \E subject \in Subjects :
       \E r \in Outcomes({None}, ClientErrors) :
          /\ last' = Forward("SubscribeStreamWorker.run", <<"handler">>, "info",
                             "js.subscribe", <<subject, "durable", "handler">>,
                             r, "success", None)
          /\ subs' = Registered(r, "push")
    /\ UNCHANGED <<loggerLevels, streams, cbVars, pullVars>>

QueueWorker_run ==
    /\ pc = "idle"
    /\ \E subject \in Subjects :
       \E r \in Outcomes({None}, ClientErrors) :
          /\ last' = Forward("QueueWorker.run", <<"handler">>, "info",
                             "nc.subscribe", <<subject, "handler", "queue">>,
                             r, "success", None)
          /\ subs' = Registered(r, "queue")
    /\ UNCHANGED <<loggerLevels, streams, cbVars, pullVars>>

\* The client delivers a message to a subscription whose callback is the
\* user handler: no code of this repository runs, so the record holds no
\* call made by it, and the handler's outcome goes to the client.
deliver ==
    /\ pc = "idle"
    /\ \E kind \in subs \cap {"event", "push", "queue"} :
       \E h \in Outcomes({None}, HandlerErrors) :
          last' = Done("handler", <<kind, "msg">>, <<>>, <<>>, h)
    /\ UNCHANGED <<loggerLevels, subs, streams, cbVars, pullVars>>

\* ---------------------------------------------------------------- Responder
\* serve registers the closure cb, not the handler
Responder_serve ==
    /\ pc = "idle"
    /\ \E subject \in Subjects :
       \E r \in Outcomes({None}, ClientErrors) :
          /\ last' = Forward("Responder.serve", <<"handler">>, "info",
                             "nc.subscribe", <<subject, "cb">>, r,
                             "success", None)
          /\ subs' = Registered(r, "responder")
    /\ UNCHANGED <<loggerLevels, streams, cbVars, pullVars>>

\* cb(msg): try: await handler(msg); except Exception: logger.error(...)
cb_reraise(h) ==
    Done("Responder.cb", <<"msg">>, <<Call("handler", <<"msg">>, h)>>,
         IF h.kind = "raised" THEN <<"error">> ELSE <<>>, h)

cb_body(h) ==
    Done("Responder.cb", <<"msg">>, <<Call("handler", <<"msg">>, h)>>,
         IF h.kind = "raised" THEN <<"error">> ELSE <<>>,
         IF h.kind = "raised" /\ ~Has("error")
         THEN Raised(AttributeError)
         ELSE Ok(None))

\* the client invokes the registered cb for an incoming message
cb ==
    /\ pc = "idle"
    /\ "responder" \in subs
    /\ cbCalls < MaxDeliveries
    /\ \E h \in Outcomes({None}, HandlerErrors) :
          /\ last' = cb_body(h)
          /\ cbCalls' = cbCalls + 1
          /\ cbHandlerCalls' = cbHandlerCalls + Len(last'.calls)
          /\ cbFailures' = cbFailures + (IF h.kind = "raised" THEN 1 ELSE 0)
    /\ UNCHANGED <<loggerLevels, subs, streams, pullVars>>

\* --------------------------------------------------------- timing decorators
\* timed_execution: log start (outside the try); try: result = func(*args);
\* log duration; return result; except Exception: log error; raise
timed_execution_swallow(name, a, r) ==
    Done(name, <<a>>, <<Call("func", <<a>>, r)>>,
         IF r.kind = "ok" THEN <<"info", "info">> ELSE <<"info", "error">>,
         IF r.kind = "ok" THEN r ELSE Ok(None))

timed_execution(name, a, r) ==
    IF ~Has("info")
    THEN Done(name, <<a>>, <<>>, <<>>, Raised(AttributeError))
    ELSE Done(name, <<a>>, <<Call("func", <<a>>, r)>>,
              IF r.kind = "ok" THEN <<"info", "info">> ELSE <<"info", "error">>,
              IF r.kind = "raised" /\ ~Has("error")
              THEN Raised(AttributeError)
              ELSE r)

get_time_async ==
    /\ pc = "idle"
    /\ \E a \in Args :
       \E r \in Outcomes({<<v>> : v \in RetVals}, HandlerErrors) :
          last' = timed_execution("get_time_async", a, r)
    /\ UNCHANGED <<loggerLevels, subs, streams, cbVars, pullVars>>

get_time_sync ==
    /\ pc = "idle"
    /\ \E a \in Args :
       \E r \in Outcomes({<<v>> : v \in RetVals}, HandlerErrors) :
          last' = timed_execution("get_time_sync", a, r)
    /\ UNCHANGED <<loggerLevels, subs, streams, cbVars, pullVars>>

\* --------------------------------------------------------- PullStreamWorker
\* one call made by run's loop: fetch, handler, ack or nak
Ev(ev, msg, r) == [ev |-> ev, msg |-> msg, res |-> r]
Running == [kind |-> "running", val |-> None, exc |-> ""]

\* what sub.fetch(n) can return: 1..n messages, identified by their stream
\* sequence number, in the order the server hands them out
Batches(n) ==
    {b \in UNION {[1..k -> 1..MaxBatch] : k \in 1..n} :
        \A i, j \in DOMAIN b : i # j => b[i] # b[j]}

\* for msg in msgs
MsgAtReversed(i) == msgs[Len(msgs) + 1 - i]

MsgAt(i) == msgs[i]

\* run up to the loop: log; sub = await js.pull_subscribe(...); log success
PullStreamWorker_run ==
    /\ pc = "idle"
    /\ \E b \in 1..MaxBatch :
       \E r \in Outcomes({<<"sub">>}, ClientErrors) :
          LET rec == Forward("PullStreamWorker.run", <<"handler">>, "info",
                             "js.pull_subscribe", <<"subj", "durable">>, r,
                             "success", None)
          IN  /\ batch' = b
              /\ IF rec.outcome.kind = "ok"
                 THEN /\ last' = [rec EXCEPT !.outcome = Running]
                      /\ pc' = "fetch"
                 ELSE /\ last' = rec
                      /\ pc' = "idle"
    /\ msgs' = <<>>
    /\ idx' = 0
    /\ trace' = <<>>
    /\ UNCHANGED <<loggerLevels, subs, streams, cbVars>>

\* an exception that leaves run
Propagate(e) ==
    /\ last' = [last EXCEPT !.outcome = Raised(e)]
    /\ pc' = "idle"

\* end of the for body: the next message, or back to the while
Advance ==
    IF idx < Len(msgs)
    THEN idx' = idx + 1 /\ pc' = "handler"
    ELSE idx' = idx /\ pc' = "fetch"

\* msgs = await sub.fetch(self.batch); except asyncio.TimeoutError: continue
\* A timeout goes back to the while with nothing changed; any other
\* exception of fetch leaves run.
fetch ==
    /\ pc = "fetch"
    /\ \/ \E b \in Batches(batch) :
             /\ msgs' = b
             /\ idx' = 1
             /\ trace' = <<Ev("fetch", 0, Ok(b))>>
             /\ pc' = "handler"
             /\ UNCHANGED last
       \/ \E e \in {TimeoutError} :
             UNCHANGED <<msgs, idx, trace, pc, last>>
       \/ \E e \in ClientErrors :
             /\ trace' = Append(trace, Ev("fetch", 0, Raised(e)))
             /\ Propagate(e)
             /\ UNCHANGED <<msgs, idx>>
    /\ UNCHANGED <<loggerLevels, subs, streams, cbVars, batch>>

\* log; try: await handler(msg) ...; except Exception: log error ...
handle_reraise ==
    /\ pc = "handler"
    /\ \E h \in Outcomes({None}, HandlerErrors) :
          /\ trace' = Append(trace, Ev("handler", MsgAt(idx), h))
          /\ IF h.kind = "ok"
             THEN pc' = "ack" /\ UNCHANGED last
             ELSE Propagate(h.exc)
    /\ UNCHANGED <<loggerLevels, subs, streams, cbVars, batch, msgs, idx>>

handle_skip ==
    /\ pc = "handler"
    /\ \E h \in Outcomes({None}, HandlerErrors) :
          /\ trace' = Append(trace, Ev("handler", MsgAt(idx), h))
          /\ IF h.kind = "ok"
             THEN pc' = "ack" /\ idx' = idx
             ELSE Advance
    /\ UNCHANGED <<loggerLevels, last, subs, streams, cbVars, batch, msgs>>

handle ==
    /\ pc = "handler"
    /\ \E h \in Outcomes({None}, HandlerErrors) :
          /\ trace' = Append(trace, Ev("handler", MsgAt(idx), h))
          /\ pc' = IF h.kind = "ok" THEN "ack" ELSE "nak"
    /\ UNCHANGED <<loggerLevels, last, subs, streams, cbVars, batch, msgs, idx>>

\* await msg.ack(); log success -- both inside the try
ack_in_finally ==
    /\ pc = "ack"
    /\ \E r \in Outcomes({None}, ClientErrors) :
          /\ trace' = Append(trace, Ev("ack", MsgAt(idx), r))
          /\ pc' = "nak"
          /\ idx' = idx
    /\ UNCHANGED <<loggerLevels, last, subs, streams, cbVars, batch, msgs>>

ack ==
    /\ pc = "ack"
    /\ \E r \in Outcomes({None}, ClientErrors) :
          /\ trace' = Append(trace, Ev("ack", MsgAt(idx), r))
          /\ IF r.kind = "ok" /\ Has("success")
             THEN Advance
             ELSE pc' = "nak" /\ idx' = idx
    /\ UNCHANGED <<loggerLevels, last, subs, streams, cbVars, batch, msgs>>

\* await msg.nak() -- in the except clause, nothing catches its exception
nak ==
    /\ pc = "nak"
    /\ \E r \in Outcomes({None}, ClientErrors) :
          /\ trace' = Append(trace, Ev("nak", MsgAt(idx), r))
          /\ IF r.kind = "ok"
             THEN Advance /\ UNCHANGED last
             ELSE Propagate(r.exc) /\ idx' = idx
    /\ UNCHANGED <<loggerLevels, subs, streams, cbVars, batch, msgs>>

\* ----------------------------------------------------------- specification
NoCall == Done("", None, <<>>, <<>>, Ok(None))

\* logger.py binds `logger` to logging.getLogger("pocket"): an instance of
\* the process's logger class.  That is logging.Logger (no success method)
\* unless the host application installed a class that adds one before the
\* import; both are explored, and the choice never changes afterwards.
Init ==
    /\ loggerLevels \in {StdlibLevels, ExtendedLevels}
    /\ last = NoCall
    /\ subs = {}
    /\ streams = {}
    /\ cbCalls = 0
    /\ cbHandlerCalls = 0
    /\ cbFailures = 0
    /\ pc = "idle"
    /\ batch = 1
    /\ msgs = <<>>
    /\ idx = 0
    /\ trace = <<>>

Next ==
    \/ create
    \/ close
    \/ request
    \/ publish
    \/ subscribe
    \/ StreamPublisher_init_stream
    \/ BaseStreamWorker_init_stream
    \/ submit
    \/ SubscribeStreamWorker_run
    \/ QueueWorker_run
    \/ deliver
    \/ Responder_serve
    \/ cb
    \/ get_time_async
    \/ get_time_sync

Spec == Init /\ [][Next]_vars

\* the stream workers alone: the pull worker's loop, the push worker's
\* registration and the client's deliveries to it
NextWorkers ==
    \/ PullStreamWorker_run
    \/ fetch
    \/ handle
    \/ ack
    \/ nak
    \/ SubscribeStreamWorker_run
    \/ deliver

SpecWorkers == Init /\ [][NextWorkers]_vars

\* ======================================================================
\* Properties
\* ======================================================================
RunName == "PullStreamWorker.run"
LastEv == trace[Len(trace)]
IsEv(p, ev) == p \in DOMAIN trace /\ trace[p].ev = ev
Returned(p) == trace[p].res.kind = "ok"
HandlerAt == {p \in DOMAIN trace : trace[p].ev = "handler"}
\* the position in the batch of the message handled at trace position p
Rank(p) == Cardinality({q \in HandlerAt : q <= p})
Acks(m) == {q \in DOMAIN trace : trace[q].ev = "ack" /\ trace[q].msg = m}
Naks(m) == {q \in DOMAIN trace : trace[q].ev = "nak" /\ trace[q].msg = m}
HandledOk(m) == \E p \in HandlerAt : trace[p].msg = m /\ Returned(p)
HandledRaised(m) == \E p \in HandlerAt : trace[p].msg = m /\ ~Returned(p)
\* the for loop is past message number i of the batch
Past(i) == i < idx \/ (i = idx /\ pc \in {"fetch", "idle"})

ForwardingOps ==
    {"NatsConnection.create", "NatsConnection.close", "NatsConnection.request",
     "EventPublisher.publish", "EventSubscriber.subscribe",
     "StreamPublisher.submit", "SubscribeStreamWorker.run", "QueueWorker.run",
     "Responder.serve"}
Expected(rec) ==
    IF rec.name = "NatsConnection.create"
    THEN <<rec.input[1], rec.calls[1].res.val[1],
           jetstream(rec.calls[1].res.val[1])>>
    ELSE IF rec.name = "NatsConnection.request"
    THEN rec.calls[1].res.val
    ELSE None

\* C3 (as claimed): every forwarding operation makes its client call exactly
\* once and, whenever that call succeeds, completes normally with the
\* client's result; the log statements never change the outcome.
C3_PassThrough ==
    last.name \in ForwardingOps =>
       /\ Len(last.calls) = 1
       /\ last.calls[1].res.kind = "ok" => last.outcome = Ok(Expected(last))

\* C4 (as claimed, its safety part): once the pull subscription is
\* established run never returns normally and, unless fetch raised something
\* other than a timeout, run has not ended.
C4_PollsForever ==
    (/\ last.name = RunName
     /\ Len(last.calls) = 1
     /\ last.calls[1].res.kind = "ok")
    => /\ last.outcome.kind # "ok"
       /\ last.outcome.kind = "raised" =>
             /\ trace # <<>>
             /\ LastEv.ev = "fetch"
             /\ LastEv.res.kind = "raised"

\* C5: a call of the wrapper built by get_time_sync / get_time_async calls
\* the wrapped function exactly once with the wrapper's arguments, returns
\* its value unchanged when it returns and raises the same exception when it
\* raises.
C5_WrapperIsTransparent ==
    last.name \in {"get_time_sync", "get_time_async"} =>
       /\ Len(last.calls) = 1
       /\ last.calls[1].call = "func"
       /\ last.calls[1].arg = last.input
       /\ last.outcome = last.calls[1].res

C5_Witness ==
    /\ last.name = "get_time_async"
    /\ last.input = <<"a2">>
    /\ last.outcome = Raised("KeyError")

\* C6 (as claimed): both stream workers settle every message given to the
\* handler: ack when the handler succeeds, nak when it fails.
C6_BothWorkersSettle ==
    /\ (last.name = "handler" /\ last.input[1] = "push") =>
          /\ last.outcome.kind = "ok" =>
                \E i \in DOMAIN last.calls : last.calls[i].call = "msg.ack"
          /\ last.outcome.kind = "raised" =>
                \E i \in DOMAIN last.calls : last.calls[i].call = "msg.nak"
    /\ \A i \in DOMAIN msgs : Past(i) =>
          /\ HandledOk(msgs[i]) => Acks(msgs[i]) # {}
          /\ HandledRaised(msgs[i]) => Naks(msgs[i]) # {}

\* C6 (amended): only the pull worker settles messages itself: after the
\* handler of a fetched message returns its next call is ack on that message,
\* after the handler raises its next call is nak on that message.  The
\* push-subscribe worker registers the user handler itself as the callback of
\* js.subscribe and calls neither ack nor nak: a message delivered there sees
\* no call of this code, and the handler's outcome goes to the client.
C6_PullSettlesPushForwards ==
    /\ \A p \in HandlerAt :
          IF p = Len(trace)
          THEN pc = (IF Returned(p) THEN "ack" ELSE "nak")
          ELSE /\ IsEv(p + 1, IF Returned(p) THEN "ack" ELSE "nak")
               /\ trace[p + 1].msg = trace[p].msg
    /\ \A i \in DOMAIN msgs : Past(i) => Acks(msgs[i]) \cup Naks(msgs[i]) # {}
    /\ last.name = "SubscribeStreamWorker.run" =>
          /\ Len(last.calls) = 1
          /\ last.calls[1].call = "js.subscribe"
          /\ last.calls[1].arg[3] = "handler"
    /\ (last.name = "handler" /\ last.input[1] = "push") => last.calls = <<>>

\* C6 witness: a pull batch in which one handler returned and was ack'ed and
\* one raised and was nak'ed, and then a push delivery whose handler raised.
C6_Witness ==
    /\ \E p, q \in HandlerAt :
          /\ Returned(p) /\ IsEv(p + 1, "ack")
          /\ ~Returned(q) /\ IsEv(q + 1, "nak")
    /\ last.name = "handler"
    /\ last.input[1] = "push"
    /\ last.outcome.kind = "raised"

\* C7 (as claimed): each delivery gets exactly one settlement call, ack iff
\* the handler returned normally and nak otherwise, never both, and no
\* handled message is left with neither.
C7_ExactlyOneSettlement ==
    \A i \in DOMAIN msgs :
       /\ Cardinality(Acks(msgs[i])) + Cardinality(Naks(msgs[i])) <= 1
       /\ Acks(msgs[i]) # {} => HandledOk(msgs[i])
       /\ Naks(msgs[i]) # {} => HandledRaised(msgs[i])
       /\ Past(i) => Acks(msgs[i]) \cup Naks(msgs[i]) # {}

\* C7 (amended): each delivery gets ack exactly when its handler returned
\* normally, and nak exactly when something inside the try block raised: the
\* handler, the ack call, or the success log after the ack.  So a delivery
\* whose handler returned and whose ack call raised gets both calls, ack and
\* then nak; a delivery whose ack and success log went through gets no nak.
\* Neither call is made twice and no handled message is left with neither.
C7_SettlementFollowsTry ==
    /\ \A p \in HandlerAt :
          IF p = Len(trace)
          THEN pc = (IF Returned(p) THEN "ack" ELSE "nak")
          ELSE /\ IsEv(p + 1, IF Returned(p) THEN "ack" ELSE "nak")
               /\ trace[p + 1].msg = trace[p].msg
    /\ \A q \in DOMAIN trace : trace[q].ev = "ack" =>
          /\ IsEv(q - 1, "handler") /\ Returned(q - 1)
          /\ trace[q - 1].msg = trace[q].msg
          /\ IF Returned(q) /\ Has("success")
             THEN ~IsEv(q + 1, "nak") /\ (q = Len(trace) => pc # "nak")
             ELSE IF q = Len(trace)
                  THEN pc = "nak"
                  ELSE IsEv(q + 1, "nak") /\ trace[q + 1].msg = trace[q].msg
    /\ \A q \in DOMAIN trace : trace[q].ev = "nak" =>
          /\ trace[q - 1].msg = trace[q].msg
          /\ \/ IsEv(q - 1, "handler") /\ ~Returned(q - 1)
             \/ IsEv(q - 1, "ack") /\ (~Returned(q - 1) \/ ~Has("success"))
    /\ \A i \in DOMAIN msgs :
          /\ Cardinality(Acks(msgs[i])) <= 1
          /\ Cardinality(Naks(msgs[i])) <= 1
          /\ Past(i) => Acks(msgs[i]) \cup Naks(msgs[i]) # {}

\* C7 witness: a delivery whose handler returned, whose ack raised and which
\* was then nak'ed as well.
C7_Witness ==
    \E p \in HandlerAt :
       /\ Returned(p)
       /\ IsEv(p + 1, "ack") /\ ~Returned(p + 1)
       /\ IsEv(p + 2, "nak") /\ trace[p + 2].msg = trace[p].msg

\* C8: run handles the messages of a batch one at a time in the order fetch
\* returned them: the k-th handler call is for the k-th message, it starts
\* only after the previous message's ack or nak has returned, and run is back
\* at fetch only when every message of the batch has a returned ack or nak.
C8_SequentialInFetchOrder ==
    /\ \A p \in HandlerAt :
          /\ Rank(p) <= Len(msgs)
          /\ trace[p].msg = msgs[Rank(p)]
          /\ IF Rank(p) = 1
             THEN p = 2 /\ IsEv(1, "fetch") /\ trace[1].res = Ok(msgs)
             ELSE /\ trace[p - 1].ev \in {"ack", "nak"}
                  /\ Returned(p - 1)
                  /\ trace[p - 1].msg = msgs[Rank(p) - 1]
    /\ (pc = "fetch" /\ msgs # <<>>) =>
          /\ Cardinality(HandlerAt) = Len(msgs)
          /\ \A i \in DOMAIN msgs :
                \E q \in Acks(msgs[i]) \cup Naks(msgs[i]) : Returned(q)

\* C8 witness: the batch <<2, 1>> (not in sequence order) fully handled and
\* settled, run back at fetch.
C8_Witness ==
    /\ pc = "fetch"
    /\ msgs = <<2, 1>>
    /\ Cardinality(HandlerAt) = 2

\* C9: init_stream (StreamPublisher and BaseStreamWorker) calls add_stream
\* once, which creates the stream when the server accepts it, and always
\* returns normally: a failure of add_stream ends in a warning, not in an
\* exception, also when the stream already exists.
C9_InitStreamNeverRaises ==
    last.name \in {"StreamPublisher.init_stream", "BaseStreamWorker.init_stream"} =>
       /\ last.outcome = Ok(None)
       /\ Len(last.calls) = 1
       /\ last.calls[1].call = "js.add_stream"
       /\ last.calls[1].arg = last.input
       /\ last.calls[1].res.kind = "ok" => last.input[1] \in streams
       /\ last.calls[1].res.kind = "raised" => last.logs[Len(last.logs)] = "warning"

\* C9 witness: init_stream called on a stream that already exists, add_stream
\* raised, init_stream returned.
C9_Witness ==
    /\ last.name = "BaseStreamWorker.init_stream"
    /\ last.input[1] \in streams
    /\ last.calls[1].res.kind = "raised"
    /\ last.outcome.kind = "ok"

\* C10: the callback Responder.serve registers catches and logs an exception
\* of the user handler and returns normally to the client, and it calls the
\* handler once for every message it is given, also after a failure.
C10_ResponderContainsErrors ==
    /\ last.name = "Responder.cb" =>
          /\ last.outcome = Ok(None)
          /\ Len(last.calls) = 1
          /\ last.calls[1].call = "handler"
          /\ last.calls[1].arg = last.input
          /\ last.calls[1].res.kind = "raised" => last.logs = <<"error">>
    /\ cbHandlerCalls = cbCalls
    /\ cbFailures <= cbCalls

\* C10 witness: a message handled by the callback after an earlier message's
\* handler had raised.
C10_Witness ==
    /\ last.name = "Responder.cb"
    /\ last.calls[1].res.kind = "ok"
    /\ cbFailures >= 1
    /\ cbCalls >= 2

====
